---- MODULE Spec2Model ----
(***************************************************************************)
(* Model of the pipeline orchestration engine of connector_magento_medusa: *)
(* the sequential scheduler SyncPipeline.run, the concurrent scheduler     *)
(* AsyncSyncPipeline.run_async, state persistence and resume, the          *)
(* dependency-graph validation and the Dead Letter Queue (DLQHandler).     *)
(*                                                                         *)
(* SyncPipeline is read from core/pipeline.py, AsyncSyncPipeline from       *)
(* core/pipeline/async_sync_pipeline.py.                                   *)
(*                                                                         *)
(* The specifications share the variables:                                 *)
(*   SpecRun       one call of run on a new pipeline, over every forward   *)
(*                 dependency graph of four steps                          *)
(*   SpecCall      one call of run or of run_async, over the same graphs   *)
(*   SpecCancel    one call during which cancel is called                  *)
(*   SpecCli       calls that may be interrupted, followed by the          *)
(*                 command-line resume or cancel of the state file         *)
(*   Spec          a session on one pipeline: run, run_async,              *)
(*                 interruption, resume, rebuild, the command-line resume  *)
(*   SpecThreads   one call of run_async with the worker threads and the   *)
(*                 coroutines of the event loop told apart                 *)
(*   SpecLive      the same with fairness, for termination                 *)
(*   SpecAdd       add_step calls and the derivation of the step ids       *)
(*   SpecDLQ       one DLQHandler on its own: add_item, flush, clock       *)
(*   SpecRetry     the DLQHandler with retry_failed_items                  *)
(*   SpecValidate  _validate_pipeline on arbitrary dependency graphs       *)
(***************************************************************************)
EXTENDS Integers, Sequences, FiniteSets, TLC

VARIABLES
    order,        \* self.steps: step ids in registration (dict) order
    deps,         \* self.dependency_graph: step id -> set of dependency ids
    enabled,      \* step.enabled
    retries,      \* step.retries
    status,       \* self.status
    stepStatus,   \* step.status
    attempts,     \* step.attempts
    stepError,    \* step.error is set (TRUE) or None (FALSE)
    stats,        \* self.stats (the counters)
    results,      \* self.results: the step ids that have a stored result
    errors,       \* self.errors
    dlqBatch,     \* DLQHandler.current_batch
    dlqFiles,     \* the DLQ files on disk: timestamp of the name -> content
    dlqArchive,   \* the files of the archive/ subdirectory, by the same keys
    clock,        \* the wall clock in whole seconds (strftime %Y%m%d_%H%M%S)
    pc,           \* position of the scheduler inside run / run_async
    executed,     \* run: executed_steps;  run_async: completed
    queue,        \* run: the part of ready_steps the for loop has yet to visit
    tasks,        \* run_async: the tasks dict, step id -> state of the task
    waitSet,      \* run_async: the ready_tasks handed to asyncio.wait
    stateFile,    \* pipeline_state_<id>.json, or NoFile
    cli,          \* outcome of the last command-line resume
    verdict,      \* outcome of the last _validate_pipeline call
    hist          \* history: the calls made and the results they returned

vars == <<order, deps, enabled, retries, status, stepStatus, attempts,
          stepError, stats, results, errors, dlqBatch, dlqFiles, dlqArchive, clock, pc,
          executed, queue, tasks, waitSet, stateFile, cli, verdict, hist>>

pipeVars == <<order, deps, enabled, retries, status, stepStatus, attempts,
              stepError, stats, results, errors, pc, executed, queue, tasks,
              waitSet, stateFile, cli, verdict>>

dlqVars == <<dlqBatch, dlqFiles, dlqArchive>>

(***************************************************************************)
(* Bounds of the model.                                                    *)
(***************************************************************************)
MaxItems == 250          \* add_item calls made on the stand-alone DLQ
MaxClock == 1            \* seconds the wall clock can advance
MaxWriteFailures == 1    \* DLQ file writes that fail
MaxRetries == 2          \* largest step.retries a pipeline is built with
MaxCalls == 2            \* run / run_async / resume calls on the pipeline
MaxFailedSteps == 3      \* cap of stats.failed_steps in run_async's loop
MaxDisabled == 1         \* steps a pipeline is built with enabled=False
MaxFailures == 2         \* executor calls that raise an exception
MaxNameLen == 1          \* characters of a step name passed to add_step
MaxAddCalls == 2         \* add_step calls made on an empty pipeline
MaxRetryCalls == 2       \* retry_failed_items calls made on the DLQ

(***************************************************************************)
(* Dead Letter Queue: core/dlq_handler.py                                  *)
(***************************************************************************)
batch_size == 100

RECURSIVE SumLen(_, _)
SumLen(f, D) ==
    IF D = {} THEN 0
    ELSE LET t == CHOOSE x \in D : TRUE
         IN  Len(f[t]) + SumLen(f, D \ {t})

\* f with the key k set to v (dict item assignment, creation of a file)
SetItem(f, k, v) == [x \in (DOMAIN f) \cup {k} |-> IF x = k THEN v ELSE f[x]]

\* what the try block of _flush_batch can do: write the file, raise in
\* open (no file is touched), or raise in json.dump or at the close of
\* the file, after open(.., 'w') has created or truncated it
WriteOutcomes == {"ok", "open_fails", "dump_fails"}

\* the content of a file that json.load cannot read
Unreadable == <<>>

\* _flush_batch with "self.current_batch = []" moved behind the try block
FlushBatchClearsAlways(batch, files, now, write) ==
    [batch |-> <<>>,
     files |-> IF write = "ok" /\ batch # <<>>
               THEN SetItem(files, now, batch) ELSE files]

\* _flush_batch: the file name carries the current second; open(.., 'w')
\* creates the file or truncates the one that has this name already.
\* A failed write is logged and leaves the batch as it is.
FlushBatch(batch, files, now, write) ==
    IF batch = <<>> THEN [batch |-> batch, files |-> files]
    ELSE CASE write = "ok" ->
                [batch |-> <<>>, files |-> SetItem(files, now, batch)]
           [] write = "dump_fails" ->
                [batch |-> batch, files |-> SetItem(files, now, Unreadable)]
           [] OTHER ->
                [batch |-> batch, files |-> files]

\* add_item: append the item, flush when the batch has reached batch_size.
\* The metadata add_item attaches (dlq_timestamp, entity_type, batch_id) is
\* read by no operation of the handler and is left out of the item.
AddItemTo(batch, files, payload, now, write) ==
    LET item == [src |-> payload]
        b2   == Append(batch, item)
    IN  IF Len(b2) >= batch_size
        THEN FlushBatch(b2, files, now, write)
        ELSE [batch |-> b2, files |-> files]

\* get_count: the in-memory batch plus the items of every file on disk (a
\* file that cannot be read is skipped)
GetCount == Len(dlqBatch) + SumLen(dlqFiles, DOMAIN dlqFiles)

\* retry_failed_items, the loop over the items of one file: every item is
\* handed to the callback; the callback raises for the payloads of failing,
\* which is caught and logged.  acc.calls are the payloads the callback was
\* invoked with so far, acc.invoked is the retried_count and acc.successful
\* the successful_count.
RetryItems(items, failing, acc) ==
    LET idx == 1..Len(items)
    IN  [calls |-> acc.calls \o [i \in idx |-> items[i].src],
         invoked |-> acc.invoked + Len(items),
         successful |-> acc.successful
                        + Cardinality({i \in idx : items[i].src \notin failing})]

\* the processed file stays where it is and a copy goes to archive/
RenameCopies(files, archive, t) ==
    [files |-> files, archive |-> SetItem(archive, t, files[t])]

\* filepath.rename(archive_path): the file leaves the DLQ directory and
\* takes the place of the archive file of its name, if there is one
Rename(files, archive, t) ==
    [files |-> [x \in (DOMAIN files) \ {t} |-> files[x]],
     archive |-> SetItem(archive, t, files[t])]

\* retry_failed_items, the loop over the files the glob has listed (todo)
RECURSIVE RetryFiles(_, _, _, _, _)
RetryFiles(todo, files, archive, failing, acc) ==
    IF todo = {}
    THEN [files |-> files, archive |-> archive, calls |-> acc.calls,
          invoked |-> acc.invoked, successful |-> acc.successful]
    ELSE LET t  == CHOOSE x \in todo : TRUE
             a2 == RetryItems(files[t], failing, acc)
             r  == Rename(files, archive, t)
         IN  IF files[t] = Unreadable
             THEN \* json.load raises: logged at line 169, the file stays
                  RetryFiles(todo \ {t}, files, archive, failing, acc)
             ELSE RetryFiles(todo \ {t}, r.files, r.archive, failing, a2)

\* retry_failed_items(retry_callback); calls are the invocations made by
\* the earlier retry_failed_items calls
RetryFailedItems(files, archive, failing, calls) ==
    RetryFiles(DOMAIN files, files, archive, failing,
               [calls |-> calls, invoked |-> 0, successful |-> 0])

NoFiles == [t \in {} |-> <<>>]

(***************************************************************************)
(* Steps and the dependency graph: core/pipeline.py, pipeline_step.py      *)
(***************************************************************************)
TC   == "step_test_connections"
CAT  == "step_sync_categories"
PROD == "step_sync_products"
CUST == "step_sync_customers"
MISSING == "step_missing"        \* an id no step is registered under

critical_steps == {TC, CAT}

\* PipelineStep.retries: int = 3
DefaultRetries == 3

Range(seq) == {seq[i] : i \in 1..Len(seq)}

\* self.dependency_graph.get(node, [])
Nbrs(g, node) == IF node \in DOMAIN g THEN g[node] ELSE {}

\* dfs(node) of _has_circular_dependencies; visited and recursion_stack are
\* the closure's two sets, threaded through the recursion.
RECURSIVE Dfs(_, _, _, _), DfsLoop(_, _, _, _, _)
Dfs(g, node, visited, stack) ==
    DfsLoop(g, node, Nbrs(g, node), visited \cup {node}, stack \cup {node})

DfsLoop(g, node, todo, visited, stack) ==
    IF todo = {}
    THEN [found |-> FALSE, visited |-> visited, stack |-> stack \ {node}]
    ELSE LET n == CHOOSE x \in todo : TRUE
         IN  IF n \notin visited
             THEN LET r == Dfs(g, n, visited, stack)
                  IN  IF r.found THEN r
                      ELSE DfsLoop(g, node, todo \ {n}, r.visited, r.stack)
             ELSE IF n \in stack
                  THEN [found |-> TRUE, visited |-> visited, stack |-> stack]
                  ELSE DfsLoop(g, node, todo \ {n}, visited, stack)

\* the loop "for step_id in self.steps" of _has_circular_dependencies
RECURSIVE CircularFrom(_, _, _, _)
CircularFrom(g, ord, i, visited) ==
    IF i > Len(ord) THEN FALSE
    ELSE IF ord[i] \in visited THEN CircularFrom(g, ord, i + 1, visited)
    ELSE LET r == Dfs(g, ord[i], visited, {})
         IN  IF r.found THEN TRUE
             ELSE CircularFrom(g, ord, i + 1, r.visited)

HasCircularDependencies(g, ord) == CircularFrom(g, ord, 1, {})

\* _validate_pipeline without its loop over the dependency ids
ValidatePipelineNoExistenceCheck(g, ord) ==
    IF HasCircularDependencies(g, ord) THEN "circular" ELSE "ok"

\* _validate_pipeline without the call of _has_circular_dependencies
ValidatePipelineNoCycleCheck(g, ord) ==
    IF \E s \in Range(ord) : \E d \in g[s] : d \notin Range(ord)
    THEN "missing" ELSE "ok"

\* _validate_pipeline without its two checks
ValidatePipelineAlwaysOk(g, ord) == "ok"

\* _validate_pipeline: "ok", or the ValueError it raises
ValidatePipeline(g, ord) ==
    IF HasCircularDependencies(g, ord) THEN "circular"
    ELSE IF \E s \in Range(ord) : \E d \in g[s] : d \notin Range(ord)
         THEN "missing"
         ELSE "ok"

\* _get_ready_steps without the sort of its list
SortByDepsKeepsOrder(g, seq, k) == seq

\* ready_steps.sort(key=len(dependencies)): a stable sort
RECURSIVE SortByDeps(_, _, _)
SortByDeps(g, seq, k) ==
    IF k > Cardinality(DOMAIN g) + 1 THEN <<>>
    ELSE SelectSeq(seq, LAMBDA x : Cardinality(g[x]) = k)
         \o SortByDeps(g, seq, k + 1)

\* _get_ready_steps with any(...) in place of all(...)
GetReadyStepsAnyDep(g, ord, done) ==
    SortByDeps(g, SelectSeq(ord, LAMBDA s : s \notin done /\
                       (g[s] = {} \/ g[s] \cap done # {})), 0)

\* _get_ready_steps
GetReadySteps(g, ord, done) ==
    SortByDeps(g, SelectSeq(ord, LAMBDA s : s \notin done /\ g[s] \subseteq done), 0)

\* _find_unresolved_dependencies (the step ids of the entries)
FindUnresolvedDependencies(g, ord, done) ==
    {s \in Range(ord) : s \notin done /\ ~(g[s] \subseteq done)}

(***************************************************************************)
(* The pipeline object as SyncPipeline.__init__ leaves it.                 *)
(***************************************************************************)
NoFile == [exists |-> FALSE]
NoCall == [op |-> "none", fresh |-> FALSE, ok |-> FALSE]
NoResult == [status |-> "none", steps |-> <<>>]

ZeroStats == [total_steps |-> 0, completed_steps |-> 0, failed_steps |-> 0,
              skipped_steps |-> 0, total_items_processed |-> 0,
              started |-> FALSE]

\* limit is the number of run / run_async / resume calls the behaviour makes;
\* names are the step names add_step has registered, name is the name of the
\* step passed to the last add_step call; retried are the payloads that
\* retry_callback was invoked with, invoked and successful the number of
\* invocations of the last retry_failed_items call and its return value,
\* callbackFailures the number of invocations that raised;
\* result is the status and the steps' statuses of the result dictionary the
\* last call returned
ZeroHist == [calls |-> 0, limit |-> 0, ret |-> <<>>, cur |-> NoCall,
             last |-> "none", raised |-> FALSE, failures |-> 0,
             added |-> 0, writeFailures |-> 0, result |-> NoResult,
             names |-> <<>>, name |-> <<>>,
             retryCalls |-> 0, retried |-> <<>>, invoked |-> 0,
             successful |-> 0, callbackFailures |-> 0]

\* a pipeline right after construction and add_steps
NewPipeline(ord) ==
    /\ status = "pending"
    /\ stepStatus = [s \in Range(ord) |-> "pending"]
    /\ attempts = [s \in Range(ord) |-> 0]
    /\ stepError = [s \in Range(ord) |-> FALSE]
    /\ stats = ZeroStats
    /\ results = {}
    /\ errors = <<>>
    /\ pc = "idle"
    /\ executed = {}
    /\ queue = <<>>
    /\ tasks = [s \in {} |-> "none"]
    /\ waitSet = {}

(***************************************************************************)
(* SpecDLQ: a DLQHandler of its own, starting with an empty directory.     *)
(***************************************************************************)
InitDLQ ==
    /\ order = <<>>
    /\ deps = [s \in {} |-> {}]
    /\ enabled = [s \in {} |-> TRUE]
    /\ retries = [s \in {} |-> 0]
    /\ NewPipeline(<<>>)
    /\ dlqBatch = <<>>
    /\ dlqFiles = NoFiles
    /\ dlqArchive = NoFiles
    /\ clock = 0
    /\ stateFile = NoFile
    /\ cli = "none"
    /\ verdict = "none"
    /\ hist = ZeroHist

\* one add_item call of a client of the handler; the payload is the number
\* of the call.  write is what the file write of a flush does.
DlqAddItem ==
    /\ hist.added < MaxItems
    /\ \E write \in WriteOutcomes :
         LET flushes == Len(dlqBatch) + 1 >= batch_size
             r == AddItemTo(dlqBatch, dlqFiles, hist.added + 1, clock, write)
         IN  /\ write = "ok"
                \/ (flushes /\ hist.writeFailures < MaxWriteFailures)
             /\ dlqBatch' = r.batch
             /\ dlqFiles' = r.files
             /\ dlqArchive' = dlqArchive
             /\ hist' = [hist EXCEPT !.added = @ + 1,
                            !.writeFailures = IF write = "ok" THEN @ ELSE @ + 1]
    /\ UNCHANGED <<pipeVars, clock>>

\* the wall clock reaches the next second
Tick ==
    /\ clock < MaxClock
    /\ clock' = clock + 1
    /\ UNCHANGED <<pipeVars, dlqVars, hist>>

NextDLQ == DlqAddItem \/ Tick

SpecDLQ == InitDLQ /\ [][NextDLQ]_vars

(***************************************************************************)
(* SpecRetry: the DLQHandler with retry_failed_items.  The callback raises *)
(* for no payload, for the first one or for every one.                     *)
(***************************************************************************)
FailingChoices == {{}, {1}, 1..MaxItems}

RetryCall ==
    /\ hist.retryCalls < MaxRetryCalls
    /\ \E failing \in FailingChoices :
         LET r == RetryFailedItems(dlqFiles, dlqArchive, failing, hist.retried)
         IN  /\ dlqFiles' = r.files
             /\ dlqArchive' = r.archive
             /\ hist' = [hist EXCEPT !.retryCalls = @ + 1, !.last = "retry",
                            !.retried = r.calls, !.invoked = r.invoked,
                            !.successful = r.successful,
                            !.callbackFailures = @ + r.invoked - r.successful]
    /\ UNCHANGED <<pipeVars, dlqBatch, clock>>

NextRetry == DlqAddItem \/ Tick \/ RetryCall

SpecRetry == InitDLQ /\ [][NextRetry]_vars

(***************************************************************************)
(* SpecValidate: _validate_pipeline on every dependency graph of three     *)
(* registered steps whose dependency lists may name each other, themselves *)
(* and an id that is not registered.                                       *)
(***************************************************************************)
ValidateOrder == <<TC, CAT, PROD>>

InitValidate ==
    /\ order = ValidateOrder
    /\ deps \in [Range(ValidateOrder) -> SUBSET (Range(ValidateOrder) \cup {MISSING})]
    /\ enabled = [s \in Range(order) |-> TRUE]
    /\ retries = [s \in Range(order) |-> 1]
    /\ NewPipeline(ValidateOrder)
    /\ dlqBatch = <<>>
    /\ dlqFiles = NoFiles
    /\ dlqArchive = NoFiles
    /\ clock = 0
    /\ stateFile = NoFile
    /\ cli = "none"
    /\ verdict = "none"
    /\ hist = ZeroHist

Validate ==
    /\ verdict = "none"
    /\ verdict' = ValidatePipeline(deps, order)
    /\ UNCHANGED <<order, deps, enabled, retries, status, stepStatus, attempts,
                   stepError, stats, results, errors, dlqBatch, dlqFiles, dlqArchive,
                   clock, pc, executed, queue, tasks, waitSet, stateFile, cli,
                   hist>>

NextValidate == Validate

SpecValidate == InitValidate /\ [][NextValidate]_vars

(***************************************************************************)
(* SpecAdd: add_step calls on a pipeline that has no step yet.  A step     *)
(* name is a sequence of characters over an alphabet that has a letter in  *)
(* both cases, the space and the underscore.                               *)
(***************************************************************************)
Chars == {"A", "a", " ", "_"}
Names == UNION {[1..n -> Chars] : n \in 0..MaxNameLen}

\* str.lower(): of this alphabet only "A" has a lower-case form of its own
LowerChar(c) == IF c = "A" THEN "a" ELSE c
Lower(str) == [i \in 1..Len(str) |-> LowerChar(str[i])]

\* str.replace(old, new) for one-character old and new
Replace(str, old, new) ==
    [i \in 1..Len(str) |-> IF str[i] = old THEN new ELSE str[i]]

\* __post_init__ with the name used as it is
StepIdKeepsCase(name) == <<"step_">> \o Replace(name, " ", "_")

\* __post_init__: self.id = f"step_{self.name.lower().replace(' ', '_')}"
StepId(name) == <<"step_">> \o Replace(Lower(name), " ", "_")

\* the depends_on lists the steps are built with
DependsOnChoices == {{}, {StepId(<<"a">>)}}

InitAdd ==
    /\ order = <<>>
    /\ deps = [s \in {} |-> {}]
    /\ enabled = [s \in {} |-> TRUE]
    /\ retries = [s \in {} |-> 0]
    /\ NewPipeline(<<>>)
    /\ dlqBatch = <<>>
    /\ dlqFiles = NoFiles
    /\ dlqArchive = NoFiles
    /\ clock = 0
    /\ stateFile = NoFile
    /\ cli = "none"
    /\ verdict = "none"
    /\ hist = [ZeroHist EXCEPT !.limit = MaxAddCalls]

\* add_step(PipelineStep(name, executor, depends_on, enabled=..)): the step
\* object comes out of __post_init__ with its id, status PENDING, attempts 0
\* and error None
AddStep ==
    /\ pc = "idle"
    /\ hist.calls < hist.limit
    /\ \E name \in Names, depends_on \in DependsOnChoices, en \in BOOLEAN :
         LET id == StepId(name)
         IN  IF id \in Range(order)
             THEN /\ hist' = [hist EXCEPT !.calls = @ + 1, !.last = "add_step",
                                 !.raised = TRUE, !.name = name]
                  /\ UNCHANGED <<order, deps, enabled, retries, stepStatus,
                                 attempts, stepError>>
             ELSE /\ order' = Append(order, id)
                  /\ deps' = SetItem(deps, id, depends_on)
                  /\ enabled' = SetItem(enabled, id, en)
                  /\ retries' = SetItem(retries, id, DefaultRetries)
                  /\ stepStatus' = SetItem(stepStatus, id, "pending")
                  /\ attempts' = SetItem(attempts, id, 0)
                  /\ stepError' = SetItem(stepError, id, FALSE)
                  /\ hist' = [hist EXCEPT !.calls = @ + 1, !.last = "add_step",
                                 !.raised = FALSE, !.name = name,
                                 !.names = Append(@, name)]
    /\ UNCHANGED <<status, stats, results, errors, dlqBatch, dlqFiles, dlqArchive, clock,
                   pc, executed, queue, tasks, waitSet, stateFile, cli,
                   verdict>>

NextAdd == AddStep

SpecAdd == InitAdd /\ [][NextAdd]_vars

(***************************************************************************)
(* Pipelines of four steps.  The step ids are those of the default         *)
(* pipeline, so that critical and non-critical steps both occur.           *)
(*   SpecRun  one call of run on a new pipeline, for every dependency      *)
(*            graph in which a step depends on steps registered before it  *)
(*            (these all pass validation) and three graphs that do not     *)
(*            pass it;                                                     *)
(*   Spec     a session of several calls (run, run_async, resume, rebuild, *)
(*            the command-line resume) on the pipelines of SessionGraphs.  *)
(***************************************************************************)
PipelineOrder == <<TC, CAT, PROD, CUST>>
StepIds == Range(PipelineOrder)

Before(s) == {PipelineOrder[j] : j \in {i \in 1..Len(PipelineOrder) :
                 \E k \in 1..Len(PipelineOrder) : PipelineOrder[k] = s /\ i < k}}

ForwardGraphs == {g \in [StepIds -> SUBSET StepIds] :
                     \A s \in StepIds : g[s] \subseteq Before(s)}

CycleGraph   == [s \in StepIds |-> IF s = TC THEN {CAT} ELSE IF s = CAT THEN {TC} ELSE {}]
SelfGraph    == [s \in StepIds |-> IF s = PROD THEN {PROD} ELSE {}]
MissingGraph == [s \in StepIds |-> IF s = CUST THEN {MISSING} ELSE {}]
InvalidGraphs == {CycleGraph, SelfGraph, MissingGraph}

\* A (no deps), B (dep A), C (dep A), D (deps B, C)
DiamondGraph == [s \in StepIds |-> CASE s = TC -> {}
                                     [] s = CAT -> {TC}
                                     [] s = PROD -> {TC}
                                     [] s = CUST -> {CAT, PROD}]
\* the first four steps of build_default_pipeline
DefaultGraph == [s \in StepIds |-> CASE s = TC -> {}
                                     [] s = CAT -> {TC}
                                     [] s = PROD -> {CAT}
                                     [] s = CUST -> {TC}]
SessionGraphs == {DiamondGraph, DefaultGraph, CycleGraph}

InitPipeline(graphs, retryChoices, limit) ==
    /\ order = PipelineOrder
    /\ deps \in graphs
    /\ enabled \in {e \in [StepIds -> BOOLEAN] :
                      Cardinality({s \in StepIds : ~e[s]}) <= MaxDisabled}
    /\ \E r \in retryChoices : retries = [s \in StepIds |-> r]
    /\ NewPipeline(PipelineOrder)
    /\ dlqBatch = <<>>
    /\ dlqFiles = NoFiles
    /\ dlqArchive = NoFiles
    /\ clock = 0
    /\ stateFile = NoFile
    /\ cli = "none"
    /\ verdict = "none"
    /\ hist = [ZeroHist EXCEPT !.limit = limit]

Init == InitPipeline(SessionGraphs, {MaxRetries}, MaxCalls)

InitRun == InitPipeline(ForwardGraphs \cup InvalidGraphs, 1..MaxRetries, 1)

\* the pipeline is as its constructor and add_steps left it
Fresh ==
    /\ status = "pending"
    /\ \A s \in Range(order) : stepStatus[s] = "pending" /\ attempts[s] = 0
    /\ stats = ZeroStats
    /\ results = {}
    /\ errors = <<>>

HistCall(op) ==
    [hist EXCEPT !.calls = @ + 1, !.last = op, !.raised = FALSE,
                 !.result = NoResult,
                 !.cur = [op |-> op, fresh |-> Fresh, ok |-> TRUE]]

\* the call returns its result dictionary.  ret keeps the status and the
\* steps' statuses of the results of the calls that were made on a new
\* pipeline and in which no executor failed or was interrupted.
HistReturn(h, st, ss) ==
    [h EXCEPT !.ret = IF h.cur.fresh /\ h.cur.ok
                      THEN Append(@, [op |-> h.cur.op, status |-> st, steps |-> ss])
                      ELSE @,
              !.result = [status |-> st, steps |-> ss],
              !.cur = NoCall]

HistNotOk(h) == [h EXCEPT !.cur.ok = FALSE]

\* an executor call raised
HistFail(h) == [h EXCEPT !.cur.ok = FALSE, !.failures = @ + 1]

StepErrorRecord(s, a) == [kind |-> "step", step_id |-> s, attempt |-> a]
PipelineErrorRecord == [kind |-> "pipeline", step_id |-> "none", attempt |-> 0]

\* the all(...) test with RUNNING added to the list of statuses
FinalStatusRunningAllowed(ss) ==
    IF \A s \in DOMAIN ss : ss[s] \in {"completed", "pending", "skipped", "running"}
    THEN "completed" ELSE "failed"

\* the all(...) test that decides the final status of run and run_async
FinalStatus(ss) ==
    IF \A s \in DOMAIN ss : ss[s] \in {"completed", "pending", "skipped"}
    THEN "completed" ELSE "failed"

\* self.pipeline_id; the state file is pipeline_state_<pipeline_id>.json
pipeline_id == "p1"

\* the document _handle_interruption writes
StateDocument(st, ss, att, err, res, sts) ==
    [exists |-> TRUE, pipeline_id |-> pipeline_id, status |-> st,
     step_states |-> [s \in DOMAIN ss |->
                         [status |-> ss[s], attempts |-> att[s], error |-> err[s]]],
     results |-> res, stats |-> sts]

\* the guard of run and run_async without its test
AlreadyRunningNever(st) == FALSE

\* "if self.status == PipelineStatus.RUNNING: raise RuntimeError"
AlreadyRunning(st) == st = "running"

\* run, lines 222-235: the guard, the bookkeeping and the validation
RunStart ==
    /\ pc = "idle"
    /\ hist.calls < hist.limit
    /\ IF AlreadyRunning(status)
       THEN \* RuntimeError("Pipeline is already running")
            /\ hist' = [HistCall("run") EXCEPT !.raised = TRUE, !.cur = NoCall]
            /\ UNCHANGED <<pipeVars, dlqVars, clock>>
       ELSE LET v == ValidatePipeline(deps, order)
            IN  /\ verdict' = v
                /\ stats' = [stats EXCEPT !.total_steps = Len(order),
                                          !.started = TRUE]
                /\ executed' = {}
                /\ queue' = <<>>
                /\ IF v = "ok"
                   THEN /\ status' = "running"
                        /\ pc' = "loop"
                        /\ hist' = HistCall("run")
                        /\ UNCHANGED errors
                   ELSE \* ValueError, caught by "except Exception"
                        /\ status' = "failed"
                        /\ errors' = Append(errors, PipelineErrorRecord)
                        /\ pc' = "idle"
                        /\ hist' = HistReturn(HistNotOk(HistCall("run")),
                                              "failed", stepStatus)
                /\ UNCHANGED <<order, deps, enabled, retries, stepStatus,
                               attempts, stepError, results, tasks, waitSet,
                               stateFile, cli, dlqVars, clock>>

\* run, lines 239-248: the head of the while loop
LoopHead ==
    /\ pc = "loop"
    /\ IF Cardinality(executed) < Len(order)
       THEN LET ready == GetReadySteps(deps, order, executed)
            IN  IF ready = <<>>
                THEN IF FindUnresolvedDependencies(deps, order, executed) # {}
                     THEN \* RuntimeError("Unresolved dependencies")
                          /\ status' = "failed"
                          /\ errors' = Append(errors, PipelineErrorRecord)
                          /\ pc' = "idle"
                          /\ hist' = HistReturn(HistNotOk(hist), "failed", stepStatus)
                          /\ UNCHANGED queue
                     ELSE /\ pc' = "finish"
                          /\ UNCHANGED <<status, errors, hist, queue>>
                ELSE /\ queue' = ready
                     /\ pc' = "wave"
                     /\ UNCHANGED <<status, errors, hist>>
       ELSE /\ pc' = "finish"
            /\ UNCHANGED <<status, errors, hist, queue>>
    /\ UNCHANGED <<order, deps, enabled, retries, stepStatus, attempts,
                   stepError, stats, results, executed, tasks, waitSet,
                   stateFile, cli, verdict, dlqVars, clock>>

\* run, lines 254-259: a disabled step counts as executed
WaveSkip ==
    /\ pc = "wave"
    /\ queue # <<>>
    /\ ~enabled[Head(queue)]
    /\ stepStatus' = [stepStatus EXCEPT ![Head(queue)] = "pending"]
    /\ stats' = [stats EXCEPT !.skipped_steps = @ + 1]
    /\ executed' = executed \cup {Head(queue)}
    /\ queue' = Tail(queue)
    /\ UNCHANGED <<order, deps, enabled, retries, status, attempts, stepError,
                   results, errors, pc, tasks, waitSet, stateFile, cli,
                   verdict, hist, dlqVars, clock>>

\* _execute_step, lines 338-413, with the outcome of the executor call:
\* "ok" (it returns a result), "fail" (it raises an Exception) or
\* "interrupt" (KeyboardInterrupt, which "except Exception" does not catch).
\* Yields the fields it assigns; success is its return value.
ExecuteStep(s, outcome) ==
    LET att == [attempts EXCEPT ![s] = @ + 1]
    IN  [attempts   |-> att,
         stepStatus |-> [stepStatus EXCEPT ![s] =
                            CASE outcome = "ok" -> "completed"
                              [] outcome = "fail" -> "failed"
                              [] OTHER -> "running"],
         stepError  |-> IF outcome = "fail"
                        THEN [stepError EXCEPT ![s] = TRUE] ELSE stepError,
         results    |-> IF outcome = "ok" THEN results \cup {s} ELSE results,
         stats      |-> IF outcome = "ok"
                        THEN [stats EXCEPT !.total_items_processed = @ + 1]
                        ELSE stats,
         errors     |-> IF outcome = "fail"
                        THEN Append(errors, StepErrorRecord(s, att[s]))
                        ELSE errors,
         dlq        |-> IF outcome = "fail"
                        THEN AddItemTo(dlqBatch, dlqFiles,
                                       [step_id |-> s, attempt |-> att[s]],
                                       clock, "ok")
                        ELSE [batch |-> dlqBatch, files |-> dlqFiles],
         success    |-> outcome = "ok"]

\* _handle_step_failure without the critical_steps branch
HandleStepFailureKeepsStatus(s, st) == st

\* _handle_step_failure, lines 489-499: the pipeline status it leaves
HandleStepFailure(s, st) == IF s \in critical_steps THEN "failed" ELSE st

\* "attempts < retries", line 271: the failed step gets its one retry
ShouldRetry(att, ret) == att < ret

\* run's KeyboardInterrupt handler without the call of _handle_interruption
InterruptedNoSnapshot(r) ==
    /\ status' = "cancelled"
    /\ pc' = "idle"
    /\ executed' = {}
    /\ queue' = <<>>
    /\ hist' = HistReturn(HistNotOk(hist), "cancelled", r.stepStatus)
    /\ UNCHANGED stateFile

\* run, lines 308-311 and 325-336: KeyboardInterrupt reaches run's handler;
\* r holds the fields as they are at that moment.
Interrupted(r) ==
    /\ status' = "cancelled"
    /\ stateFile' = StateDocument("cancelled", r.stepStatus, r.attempts,
                                  r.stepError, r.results, r.stats)
    /\ pc' = "idle"
    /\ executed' = {}
    /\ queue' = <<>>
    /\ hist' = HistReturn(HistNotOk(hist), "cancelled", r.stepStatus)

Unchanged == [attempts |-> attempts, stepStatus |-> stepStatus,
              stepError |-> stepError, results |-> results, stats |-> stats,
              errors |-> errors, dlq |-> [batch |-> dlqBatch, files |-> dlqFiles],
              success |-> FALSE]

\* run, lines 261-287: the first execution of the next ready step
WaveExecute ==
    /\ pc = "wave"
    /\ queue # <<>>
    /\ enabled[Head(queue)]
    /\ \E outcome \in {"ok", "fail", "interrupt"} :
         LET s == Head(queue)
             r == ExecuteStep(s, outcome)
         IN  /\ outcome = "fail" => hist.failures < MaxFailures
             /\ attempts' = r.attempts
             /\ stepStatus' = r.stepStatus
             /\ stepError' = r.stepError
             /\ results' = r.results
             /\ errors' = r.errors
             /\ dlqBatch' = r.dlq.batch
             /\ dlqFiles' = r.dlq.files
             /\ dlqArchive' = dlqArchive
             /\ CASE outcome = "ok" ->
                       /\ executed' = executed \cup {s}
                       /\ stats' = [r.stats EXCEPT !.completed_steps = @ + 1]
                       /\ queue' = Tail(queue)
                       /\ UNCHANGED <<status, pc, hist, stateFile>>
                  [] outcome = "fail" ->
                       /\ stats' = [r.stats EXCEPT !.failed_steps = @ + 1]
                       /\ hist' = HistFail(hist)
                       /\ IF ShouldRetry(r.attempts[s], retries[s])
                          THEN /\ pc' = "backoff"
                               /\ UNCHANGED <<status, queue>>
                          ELSE /\ status' = HandleStepFailure(s, status)
                               /\ queue' = <<>>          \* break
                               /\ UNCHANGED pc
                       /\ UNCHANGED <<executed, stateFile>>
                  [] OTHER ->
                       /\ stats' = r.stats
                       /\ Interrupted(r)
    /\ UNCHANGED <<order, deps, enabled, retries, tasks, waitSet, cli,
                   verdict, clock>>

\* run, lines 272-283: the backoff sleep and the second execution
RetryExecute ==
    /\ pc = "backoff"
    /\ \E outcome \in {"ok", "fail", "interrupt", "sleep_interrupt"} :
         LET s == Head(queue)
             r == IF outcome = "sleep_interrupt" THEN Unchanged
                  ELSE ExecuteStep(s, outcome)
         IN  /\ outcome = "fail" => hist.failures < MaxFailures
             /\ attempts' = r.attempts
             /\ stepStatus' = r.stepStatus
             /\ stepError' = r.stepError
             /\ results' = r.results
             /\ errors' = r.errors
             /\ dlqBatch' = r.dlq.batch
             /\ dlqFiles' = r.dlq.files
             /\ dlqArchive' = dlqArchive
             /\ CASE outcome = "ok" ->
                       /\ executed' = executed \cup {s}
                       /\ stats' = [r.stats EXCEPT !.completed_steps = @ + 1,
                                                   !.failed_steps = @ - 1]
                       /\ queue' = Tail(queue)
                       /\ pc' = "wave"
                       /\ UNCHANGED <<status, hist, stateFile>>
                  [] outcome = "fail" ->
                       /\ stats' = r.stats
                       /\ status' = HandleStepFailure(s, status)
                       /\ queue' = <<>>                  \* break
                       /\ pc' = "wave"
                       /\ hist' = HistFail(hist)
                       /\ UNCHANGED <<executed, stateFile>>
                  [] OTHER ->
                       /\ stats' = r.stats
                       /\ Interrupted(r)
    /\ UNCHANGED <<order, deps, enabled, retries, tasks, waitSet, cli,
                   verdict, clock>>

\* run, lines 289-291: after the for loop, stop when any step is failed
WaveEnd ==
    /\ pc = "wave"
    /\ queue = <<>>
    /\ pc' = IF \E s \in Range(order) : stepStatus[s] = "failed"
             THEN "finish" ELSE "loop"
    /\ UNCHANGED <<order, deps, enabled, retries, status, stepStatus, attempts,
                   stepError, stats, results, errors, executed, queue, tasks,
                   waitSet, stateFile, cli, verdict, hist, dlqVars, clock>>

\* run, lines 293-306 and 325-336: the final status and the return
Finish ==
    /\ pc = "finish"
    /\ status' = FinalStatus(stepStatus)
    /\ pc' = "idle"
    /\ executed' = {}
    /\ queue' = <<>>
    /\ hist' = HistReturn(hist, FinalStatus(stepStatus), stepStatus)
    /\ UNCHANGED <<order, deps, enabled, retries, stepStatus, attempts,
                   stepError, stats, results, errors, tasks, waitSet,
                   stateFile, cli, verdict, dlqVars, clock>>

NextRun == RunStart \/ LoopHead \/ WaveSkip \/ WaveExecute \/ RetryExecute
           \/ WaveEnd \/ Finish

SpecRun == InitRun /\ [][NextRun]_vars

(***************************************************************************)
(* State persistence and resume.                                           *)
(***************************************************************************)
\* resume, lines 763-769: the step states of the document are restored into
\* the steps that are registered
RestoreSteps(doc, field, cur) ==
    [s \in DOMAIN cur |->
        IF s \in DOMAIN doc.step_states THEN doc.step_states[s][field]
        ELSE cur[s]]

\* resume, lines 743-784.  The stats loop, lines 775-779, runs over the keys
\* of PipelineStats.to_dict in their order.  The counters and start_time
\* and end_time are set; at the key 'duration' hasattr evaluates the property
\* PipelineStats.duration with start_time now a string, which raises
\* TypeError (a property without a setter could not be set either).  The
\* error leaves resume before line 784, so run is never called.
Resume ==
    /\ pc = "idle"
    /\ hist.calls < hist.limit
    /\ stateFile.exists
    /\ stepStatus' = RestoreSteps(stateFile, "status", stepStatus)
    /\ attempts' = RestoreSteps(stateFile, "attempts", attempts)
    /\ stepError' = RestoreSteps(stateFile, "error", stepError)
    /\ results' = stateFile.results
    /\ stats' = stateFile.stats
    /\ hist' = [hist EXCEPT !.calls = @ + 1, !.last = "resume",
                            !.raised = TRUE, !.result = NoResult,
                            !.cur = [op |-> "resume", fresh |-> Fresh,
                                     ok |-> FALSE]]
    /\ UNCHANGED <<order, deps, enabled, retries, status, errors, pc, executed,
                   queue, tasks, waitSet, stateFile, cli, verdict, dlqVars,
                   clock>>

\* a caller builds the pipeline anew: the constructor and add_steps with the
\* same steps, as a resume in a new process has to (cli.py, lines 554-556).
\* The new DLQHandler starts with an empty batch; the files stay.
Rebuild ==
    /\ pc = "idle"
    /\ hist.calls >= 1
    /\ hist.calls < hist.limit
    /\ hist.last # "rebuild"
    /\ status' = "pending"
    /\ stepStatus' = [s \in Range(order) |-> "pending"]
    /\ attempts' = [s \in Range(order) |-> 0]
    /\ stepError' = [s \in Range(order) |-> FALSE]
    /\ stats' = ZeroStats
    /\ results' = {}
    /\ errors' = <<>>
    /\ dlqBatch' = <<>>
    /\ hist' = [hist EXCEPT !.last = "rebuild", !.raised = FALSE,
                            !.result = NoResult]
    /\ UNCHANGED <<order, deps, enabled, retries, pc, executed, queue, tasks,
                   waitSet, stateFile, cli, verdict, dlqFiles, dlqArchive, clock>>

\* build_default_pipeline, lines 162-210
PDLQ   == "step_process_dlq"
REPORT == "step_generate_report"
DefaultOrder == <<TC, CAT, PROD, CUST, PDLQ, REPORT>>
DefaultDeps == [s \in Range(DefaultOrder) |->
                   CASE s = TC -> {}
                     [] s = CAT -> {TC}
                     [] s = PROD -> {CAT}
                     [] s = CUST -> {TC}
                     [] s = PDLQ -> {CAT, PROD, CUST}
                     [] s = REPORT -> {PDLQ}]

\* the status test of both command-line handlers without its test
ResumableAlways(st) == TRUE

\* "current_status not in ['running', 'paused']", cli.py lines 504 and 549
Resumable(st) == st \in {"running", "paused"}

\* handle_pipeline_resume, cli.py lines 529-574.  A document whose status is
\* not running or paused is refused.  Otherwise the default pipeline is
\* built and resume is called on it; resume raises (see Resume), so the
\* handler is left before the results are saved and the file is renamed.
CliResume ==
    /\ pc = "idle"
    /\ hist.calls >= 1
    /\ cli = "none"
    /\ IF ~stateFile.exists
       THEN /\ cli' = "not_found"
            /\ UNCHANGED <<order, deps, enabled, retries, status, stepStatus,
                           attempts, stepError, stats, results, errors,
                           dlqBatch, pc>>
       ELSE IF ~Resumable(stateFile.status)
       THEN /\ cli' = "rejected"
            /\ UNCHANGED <<order, deps, enabled, retries, status, stepStatus,
                           attempts, stepError, stats, results, errors,
                           dlqBatch, pc>>
       ELSE /\ cli' = "raised"
            /\ pc' = "exited"
            /\ order' = DefaultOrder
            /\ deps' = DefaultDeps
            /\ enabled' = [s \in Range(DefaultOrder) |-> TRUE]
            /\ retries' = [s \in Range(DefaultOrder) |-> DefaultRetries]
            /\ status' = "pending"
            /\ stepStatus' = RestoreSteps(stateFile, "status",
                                 [s \in Range(DefaultOrder) |-> "pending"])
            /\ attempts' = RestoreSteps(stateFile, "attempts",
                                 [s \in Range(DefaultOrder) |-> 0])
            /\ stepError' = RestoreSteps(stateFile, "error",
                                 [s \in Range(DefaultOrder) |-> FALSE])
            /\ stats' = stateFile.stats
            /\ results' = stateFile.results
            /\ errors' = <<>>
            /\ dlqBatch' = <<>>
    /\ hist' = [hist EXCEPT !.last = "cli_resume", !.raised = FALSE,
                            !.result = NoResult]
    /\ UNCHANGED <<executed, queue, tasks, waitSet, stateFile, verdict,
                   dlqFiles, dlqArchive, clock>>

\* handle_pipeline_cancel, cli.py lines 487-526.  A document whose status is
\* not running or paused is refused.  Otherwise, after the confirmation,
\* the document is rewritten with status cancelled and renamed
\* pipeline_cancelled_<id>.json, so no file is left under the name.
CliCancel ==
    /\ pc = "idle"
    /\ hist.calls >= 1
    /\ cli = "none"
    /\ IF ~stateFile.exists
       THEN /\ cli' = "cancel_not_found"
            /\ UNCHANGED stateFile
       ELSE IF ~Resumable(stateFile.status)
       THEN /\ cli' = "cancel_rejected"
            /\ UNCHANGED stateFile
       ELSE \E confirm \in BOOLEAN :
              IF confirm
              THEN /\ cli' = "cancelled"
                   /\ stateFile' = NoFile
              ELSE /\ cli' = "cancel_aborted"
                   /\ UNCHANGED stateFile
    /\ hist' = [hist EXCEPT !.last = "cli_cancel", !.raised = FALSE,
                            !.result = NoResult]
    /\ UNCHANGED <<order, deps, enabled, retries, status, stepStatus, attempts,
                   stepError, stats, results, errors, pc, executed, queue,
                   tasks, waitSet, verdict, dlqVars, clock>>

\* cancel, lines 808-815, called while the pipeline is running (from a
\* callback, an executor or another thread): the status becomes cancelled
\* and the state is saved.  The scheduler does not look at the status.
Cancel ==
    /\ status = "running"
    /\ status' = "cancelled"
    /\ stateFile' = StateDocument("cancelled", stepStatus, attempts, stepError,
                                  results, stats)
    /\ hist' = HistNotOk(hist)
    /\ UNCHANGED <<order, deps, enabled, retries, stepStatus, attempts,
                   stepError, stats, results, errors, pc, executed, queue,
                   tasks, waitSet, cli, verdict, dlqVars, clock>>

(***************************************************************************)
(* The concurrent scheduler: core/pipeline/async_sync_pipeline.py          *)
(***************************************************************************)
TaskDone == {"done_ok", "done_fail"}

\* lines 82-89 without the test of the dependencies
ReadyTasksIgnoringDeps(tk, done) == DOMAIN tk

\* lines 82-89: the tasks whose dependencies are all in completed
ReadyTasks(tk, done) == {s \in DOMAIN tk : deps[s] \subseteq done}

\* lines 134-136 and run_async lines 33-62: after the loop, the completed
\* counter is recomputed, the final status is set and the result returned
AsyncReturn(ss, sts, h) ==
    /\ stats' = [sts EXCEPT !.completed_steps =
                     Cardinality({s \in DOMAIN ss : ss[s] = "completed"})]
    /\ status' = FinalStatus(ss)
    /\ pc' = "idle"
    /\ tasks' = [s \in {} |-> "none"]
    /\ waitSet' = {}
    /\ executed' = {}
    /\ hist' = HistReturn(h, FinalStatus(ss), ss)

\* the loop of lines 70-76 without its test of step.enabled
CreateTasksForAll(ord, en) == [s \in Range(ord) |-> "running"]

\* lines 69-76: one task per enabled step; every task starts to run at the
\* first suspension of run_async, whatever its dependencies
CreateTasks(ord, en) == [s \in {x \in Range(ord) : en[x]} |-> "running"]

\* run_async lines 15-31 and _execute_steps_concurrently lines 64-102, up to
\* the first await.  A task is created for every enabled step.  The tasks
\* start running when the scheduler first suspends in asyncio.wait; each
\* then executes lines 140-142 (attempts, status running) and hands its
\* executor to the worker pool.  When no task is ready the loop ends before
\* any await: run_async computes its result from the statuses as they are
\* and returns, and the created tasks start only then, when the event loop
\* gets control (they are cancelled in their executor call afterwards).
RunAsyncStart ==
    /\ pc = "idle"
    /\ hist.calls < hist.limit
    /\ IF AlreadyRunning(status)
       THEN \* RuntimeError("Pipeline is already running")
            /\ hist' = [HistCall("run_async") EXCEPT !.raised = TRUE,
                                                     !.cur = NoCall]
            /\ UNCHANGED <<pipeVars, dlqVars, clock>>
       ELSE LET v  == ValidatePipeline(deps, order)
                tk == CreateTasks(order, enabled)
                rd == ReadyTasks(tk, {})
                s1 == [stats EXCEPT !.total_steps = Len(order), !.started = TRUE]
            IN  /\ verdict' = v
                /\ queue' = <<>>
                /\ IF v # "ok"
                   THEN \* ValueError, caught by "except Exception"
                        /\ status' = "failed"
                        /\ errors' = Append(errors, PipelineErrorRecord)
                        /\ stats' = s1
                        /\ hist' = HistReturn(HistNotOk(HistCall("run_async")),
                                              "failed", stepStatus)
                        /\ UNCHANGED <<pc, tasks, waitSet, executed, attempts,
                                       stepStatus>>
                   ELSE /\ attempts' = [s \in Range(order) |->
                              IF s \in DOMAIN tk THEN attempts[s] + 1
                              ELSE attempts[s]]
                        /\ stepStatus' = [s \in Range(order) |->
                              IF s \in DOMAIN tk THEN "running"
                              ELSE stepStatus[s]]
                        /\ UNCHANGED errors
                        /\ IF rd = {}
                           THEN AsyncReturn(stepStatus, s1, HistCall("run_async"))
                           ELSE /\ status' = "running"
                                /\ stats' = s1
                                /\ tasks' = tk
                                /\ waitSet' = rd
                                /\ executed' = {}
                                /\ pc' = "a_wait"
                                /\ hist' = HistCall("run_async")
                /\ UNCHANGED <<order, deps, enabled, retries, stepError,
                               results, stateFile, cli, dlqVars, clock>>

\* _execute_step_async, lines 146-187: the executor of a running task
\* returns or raises.  A failure is recorded in the step and in the DLQ
\* and the task ends with the exception; a success leaves the status as
\* it is until the scheduler processes the task.
ExecutorDone ==
    /\ pc = "a_wait"
    /\ \E s \in DOMAIN tasks : \E outcome \in {"ok", "fail"} :
         /\ tasks[s] = "running"
         /\ outcome = "fail" => hist.failures < MaxFailures
         /\ IF outcome = "ok"
            THEN /\ tasks' = [tasks EXCEPT ![s] = "done_ok"]
                 /\ UNCHANGED <<stepStatus, stepError, dlqVars, hist>>
            ELSE LET r == AddItemTo(dlqBatch, dlqFiles,
                                    [step_id |-> s, attempt |-> attempts[s]],
                                    clock, "ok")
                 IN  /\ tasks' = [tasks EXCEPT ![s] = "done_fail"]
                     /\ stepStatus' = [stepStatus EXCEPT ![s] = "failed"]
                     /\ stepError' = [stepError EXCEPT ![s] = TRUE]
                     /\ dlqBatch' = r.batch
                     /\ dlqFiles' = r.files
                     /\ dlqArchive' = dlqArchive
                     /\ hist' = HistFail(hist)
    /\ UNCHANGED <<order, deps, enabled, retries, status, attempts, stats,
                   results, errors, pc, executed, queue, waitSet, stateFile,
                   cli, verdict, clock>>

\* lines 99-136: asyncio.wait returns with the ready tasks that are done;
\* they are processed, the completed ones leave tasks, and the loop either
\* waits again or ends.  A task that ended with an exception is never put
\* into completed and so stays in tasks.
AsyncProcessGen(at, saturate) ==
    /\ pc = at
    /\ LET done   == {s \in waitSet : tasks[s] \in TaskDone}
           oks    == {s \in done : tasks[s] = "done_ok"}
           fails  == done \ oks
           comp   == executed \cup oks
           ss     == [s \in Range(order) |->
                         IF s \in oks THEN "completed"
                         ELSE IF s \in fails THEN "failed"
                         ELSE stepStatus[s]]
           sts    == [stats EXCEPT
                         !.total_items_processed = @ + Cardinality(oks),
                         !.failed_steps =
                            IF saturate /\ @ + Cardinality(fails) > MaxFailedSteps
                            THEN MaxFailedSteps
                            ELSE @ + Cardinality(fails)]
           tk     == [s \in DOMAIN tasks \ comp |-> tasks[s]]
           rd     == ReadyTasks(tk, comp)
       IN  /\ done # {}
           /\ sts.failed_steps <= MaxFailedSteps
           /\ stepStatus' = ss
           /\ stepError' = [s \in Range(order) |->
                               IF s \in fails THEN TRUE ELSE stepError[s]]
           /\ results' = results \cup oks
           /\ IF rd = {}
              THEN AsyncReturn(ss, sts, hist)
              ELSE /\ stats' = sts
                   /\ tasks' = tk
                   /\ waitSet' = rd
                   /\ executed' = comp
                   /\ pc' = "a_wait"
                   /\ UNCHANGED <<status, hist>>
    /\ UNCHANGED <<order, deps, enabled, retries, attempts, errors, queue,
                   stateFile, cli, verdict, dlqVars, clock>>

\* "self.stats.failed_steps += 1" for each done task that failed
AsyncProcess(at) == AsyncProcessGen(at, FALSE)

\* the scheduler's turn taken in one step with the return of asyncio.wait
AsyncResume == AsyncProcess("a_wait")


\* KeyboardInterrupt while run_async waits (the cancellation of the main
\* task is no Exception, so line 42 does not catch it): the call is left
\* with the status running, the tasks are cancelled in their executor calls
\* and keep the status they have.  The handler of the caller, cli.py lines
\* 414-421, saves the state when snapshot is TRUE.
AsyncInterrupt ==
    /\ pc = "a_wait"
    /\ pc' = "idle"
    /\ tasks' = [s \in {} |-> "none"]
    /\ waitSet' = {}
    /\ executed' = {}
    /\ \E snapshot \in BOOLEAN :
         stateFile' = IF snapshot
                      THEN StateDocument(status, stepStatus, attempts,
                                         stepError, results, stats)
                      ELSE stateFile
    /\ hist' = [hist EXCEPT !.raised = TRUE, !.cur = NoCall]
    /\ UNCHANGED <<order, deps, enabled, retries, status, stepStatus, attempts,
                   stepError, stats, results, errors, queue, cli, verdict,
                   dlqVars, clock>>

\* SpecCall: one call of run or of run_async on a new pipeline, over the
\* dependency graphs of SpecRun
NextCall == RunStart \/ LoopHead \/ WaveSkip \/ WaveExecute \/ RetryExecute
            \/ WaveEnd \/ Finish \/ RunAsyncStart \/ ExecutorDone
            \/ AsyncResume

SpecCall == InitRun /\ [][NextCall]_vars

\* SpecCancel: one call of run or of run_async on the diamond pipeline,
\* during which cancel may be called
InitCancel == InitPipeline({DiamondGraph}, {MaxRetries}, 1)

NextCancel == NextCall \/ Cancel

SpecCancel == InitCancel /\ [][NextCancel]_vars

\* SpecCli: calls of run and run_async on the pipeline of the default
\* steps, which may be interrupted, and the command-line resume and cancel
\* of the state file they leave
InitCli == InitPipeline({DefaultGraph}, {MaxRetries}, MaxCalls)

NextCli == NextCall \/ AsyncInterrupt \/ CliResume \/ CliCancel

SpecCli == InitCli /\ [][NextCli]_vars

Next == RunStart \/ LoopHead \/ WaveSkip \/ WaveExecute \/ RetryExecute
        \/ WaveEnd \/ Finish \/ Resume \/ Rebuild \/ CliResume
        \/ RunAsyncStart \/ ExecutorDone \/ AsyncResume

Spec == Init /\ [][Next]_vars

(***************************************************************************)
(* SpecThreads: one run_async call with the threads told apart.  The       *)
(* executors run in the threads of the worker pool (run_in_executor, lines *)
(* 156-160) and end there at any moment; the task coroutines and the       *)
(* scheduler run on the thread of the event loop, one at a time, each from *)
(* one await to the next.  add_item is entered (the append, line 41) and   *)
(* left (the flush test, lines 44-45) in two steps, and so is the          *)
(* scheduler's processing of the done tasks.                               *)
(***************************************************************************)
FlatGraph == [s \in StepIds |-> {}]

InitThreads == InitPipeline({FlatGraph, DiamondGraph}, {MaxRetries}, 1)

\* a coroutine may take the event loop at any moment
LoopThreadFreeAlways == TRUE

\* the event loop runs one coroutine at a time: it is free when the
\* scheduler is suspended in asyncio.wait and no task coroutine is between
\* two awaits
LoopThreadFree ==
    /\ pc = "a_wait"
    /\ \A s \in DOMAIN tasks : tasks[s] # "in_add_item"

\* worker thread: the lambda of line 159 returns or raises
ThreadExecutorDone ==
    /\ pc \in {"a_wait", "a_process"}
    /\ \E s \in DOMAIN tasks : \E outcome \in {"returned", "raised"} :
         /\ tasks[s] = "running"
         /\ outcome = "raised" => hist.failures < MaxFailures
         /\ tasks' = [tasks EXCEPT ![s] = outcome]
         /\ hist' = IF outcome = "raised" THEN HistFail(hist) ELSE hist
    /\ UNCHANGED <<order, deps, enabled, retries, status, stepStatus, attempts,
                   stepError, stats, results, errors, pc, executed, queue,
                   waitSet, stateFile, cli, verdict, dlqVars, clock>>

\* event loop: the task coroutine goes on after "await run_in_executor";
\* lines 162-167 when the executor returned, lines 169-178 and the append
\* of add_item when it raised
CoroutineResume ==
    /\ LoopThreadFree
    /\ \E s \in DOMAIN tasks :
         \/ /\ tasks[s] = "returned"
            /\ tasks' = [tasks EXCEPT ![s] = "done_ok"]
            /\ UNCHANGED <<stepStatus, stepError, dlqBatch>>
         \/ /\ tasks[s] = "raised"
            /\ tasks' = [tasks EXCEPT ![s] = "in_add_item"]
            /\ stepStatus' = [stepStatus EXCEPT ![s] = "failed"]
            /\ stepError' = [stepError EXCEPT ![s] = TRUE]
            /\ dlqBatch' = Append(dlqBatch,
                   [src |-> [step_id |-> s, attempt |-> attempts[s]]])
    /\ UNCHANGED <<order, deps, enabled, retries, status, attempts, stats,
                   results, errors, pc, executed, queue, waitSet, stateFile,
                   cli, verdict, dlqFiles, dlqArchive, clock, hist>>

\* event loop: the rest of add_item (the flush when the batch is full) and
\* the raise of line 187, which ends the task
AddItemEnd ==
    /\ \E s \in DOMAIN tasks :
         /\ tasks[s] = "in_add_item"
         /\ tasks' = [tasks EXCEPT ![s] = "done_fail"]
    /\ LET r == IF Len(dlqBatch) >= batch_size
                THEN FlushBatch(dlqBatch, dlqFiles, clock, "ok")
                ELSE [batch |-> dlqBatch, files |-> dlqFiles]
       IN  /\ dlqBatch' = r.batch
           /\ dlqFiles' = r.files
    /\ UNCHANGED <<order, deps, enabled, retries, status, stepStatus, attempts,
                   stepError, stats, results, errors, pc, executed, queue,
                   waitSet, stateFile, cli, verdict, dlqArchive, clock, hist>>

\* event loop: asyncio.wait returns to the scheduler, line 99
SchedulerWake ==
    /\ LoopThreadFree
    /\ pc = "a_wait"
    /\ \E s \in waitSet : tasks[s] \in TaskDone
    /\ pc' = "a_process"
    /\ UNCHANGED <<order, deps, enabled, retries, status, stepStatus, attempts,
                   stepError, stats, results, errors, executed, queue, tasks,
                   waitSet, stateFile, cli, verdict, dlqVars, clock, hist>>

\* event loop: lines 104-132, up to the next asyncio.wait or to the return
SchedulerProcess == AsyncProcess("a_process")

NextThreads == RunAsyncStart \/ ThreadExecutorDone \/ CoroutineResume
               \/ AddItemEnd \/ SchedulerWake \/ SchedulerProcess

SpecThreads == InitThreads /\ [][NextThreads]_vars

(***************************************************************************)
(* SpecLive: the run_async call of SpecThreads with fairness: the call is  *)
(* made, every executor returns or raises, and the event loop runs every   *)
(* coroutine that can go on.  The counter of failed steps is held at       *)
(* MaxFailedSteps once it has got there, which makes the states of a loop  *)
(* that goes on finitely many.                                             *)
(***************************************************************************)
SchedulerProcessSaturating == AsyncProcessGen("a_process", TRUE)

NextLive == RunAsyncStart \/ ThreadExecutorDone \/ CoroutineResume
            \/ AddItemEnd \/ SchedulerWake \/ SchedulerProcessSaturating

SpecLive ==
    /\ InitThreads
    /\ [][NextLive]_vars
    /\ WF_vars(RunAsyncStart)
    /\ WF_vars(ThreadExecutorDone)
    /\ WF_vars(CoroutineResume)
    /\ WF_vars(AddItemEnd)
    /\ WF_vars(SchedulerWake)
    /\ WF_vars(SchedulerProcessSaturating)

(***************************************************************************)
(* Properties.                                                             *)
(***************************************************************************)
\* the ids a step depends on, directly or through other steps
RECURSIVE ReachN(_, _, _)
ReachN(g, S, n) ==
    IF n = 0 THEN S
    ELSE ReachN(g, S \cup UNION {Nbrs(g, x) : x \in S}, n - 1)

TransDeps(g, s) == ReachN(g, Nbrs(g, s), Cardinality(DOMAIN g))

\* this step of run invokes the executor of s
Invoked(s) == pc \in {"wave", "backoff"} /\ attempts'[s] = attempts[s] + 1

\* run has returned without having been interrupted or refused
RunReturned ==
    /\ pc = "idle"
    /\ hist.last = "run"
    /\ ~hist.raised
    /\ verdict = "ok"
    /\ status # "cancelled"

\* the attempts of s that failed, from the error records
FailedAttempts(s) ==
    {errors[i].attempt : i \in {j \in 1..Len(errors) :
                                  errors[j].kind = "step" /\ errors[j].step_id = s}}

DlqAttempts(s) ==
    {dlqBatch[i].src.attempt : i \in {j \in 1..Len(dlqBatch) :
                                        dlqBatch[j].src.step_id = s}}

\* C1 (as claimed): whenever run invokes the executor of a step, every
\* declared dependency of the step has status completed.
C1_DepsCompletedWhenInvoked ==
    [][\A s \in Range(order) :
         Invoked(s) => \A d \in deps[s] : stepStatus[d] = "completed"]_vars

\* C1 (amended): whenever run invokes the executor of a step, every declared
\* dependency of the step either has status completed or is a disabled step,
\* which run has skipped and counts as executed.
C1_DepsCompletedOrDisabled ==
    [][\A s \in Range(order) :
         Invoked(s) => \A d \in deps[s] :
                          \/ stepStatus[d] = "completed"
                          \/ (~enabled[d] /\ d \in executed)]_vars

\* C1 witness: in the diamond A, B (A), C (A), D (B, C), D has been invoked
\* and B and C are completed.
C1_Witness ==
    /\ deps = DiamondGraph
    /\ \A s \in StepIds : enabled[s]
    /\ attempts[CUST] = 1
    /\ stepStatus[CAT] = "completed" /\ stepStatus[PROD] = "completed"

\* C2 (as claimed): when run returns, a step with retries = 2 whose executor
\* failed on its first two invocations and on no other has status completed
\* and attempts = 3, with two error records and two DLQ items.
C2_ThirdAttemptCompletes ==
    RunReturned =>
        \A s \in Range(order) :
            (retries[s] = 2 /\ FailedAttempts(s) = {1, 2})
            => /\ stepStatus[s] = "completed"
               /\ attempts[s] = 3
               /\ DlqAttempts(s) = {1, 2}

\* C3 (as claimed): when run returns and a non-critical step is failed, every
\* enabled step that does not depend on the failed step, directly or through
\* other steps, has been executed.
C3_IndependentStepsExecuted ==
    RunReturned =>
        \A f \in Range(order) \ critical_steps :
            stepStatus[f] = "failed"
            => \A t \in Range(order) \ {f} :
                  (enabled[t] /\ f \notin TransDeps(deps, t)) => attempts[t] >= 1

\* a critical step has failed and run has given up retrying it
CriticalStepFailed ==
    /\ pc \in {"wave", "finish"}
    /\ \E s \in critical_steps \cap Range(order) : stepStatus[s] = "failed"

\* C4: once a critical step has failed with its retries exhausted, the
\* pipeline status is failed and stays failed until run returns, and run
\* invokes no executor any more.
C4_CriticalFailureHalts ==
    [][CriticalStepFailed =>
          /\ status = "failed" /\ status' = "failed"
          /\ attempts' = attempts]_vars

\* C4 witness: run has returned failed after the category sync failed, and
\* the enabled product sync was never started.
C4_Witness ==
    /\ pc = "idle" /\ hist.last = "run"
    /\ status = "failed"
    /\ stepStatus[CAT] = "failed"
    /\ enabled[PROD] /\ attempts[PROD] = 0 /\ stepStatus[PROD] = "pending"

\* resume has been called on a newly built pipeline, with a state file
\* that records a completed or failed step
ResumedNewPipeline ==
    /\ pc = "idle" /\ hist.last = "resume" /\ hist.cur.fresh
    /\ \E s \in DOMAIN stateFile.step_states :
          stateFile.step_states[s].status \in {"completed", "failed"}

\* C5 (as claimed): after resume on a newly built pipeline, the resumed run
\* has taken place (resume returned its result) and every step that the
\* state file records as completed or failed has the status and the
\* attempts of the file.
C5_ResumeIdempotent ==
    ResumedNewPipeline =>
        /\ ~hist.raised
        /\ \A s \in DOMAIN stateFile.step_states :
              stateFile.step_states[s].status \in {"completed", "failed"}
              => /\ stepStatus[s] = stateFile.step_states[s].status
                 /\ attempts[s] = stateFile.step_states[s].attempts

\* C6 (as claimed): the command-line resume of a state file that an
\* interrupted run wrote is not refused and does not fail.
C6_SnapshotResumable ==
    (hist.last = "cli_resume" /\ stateFile.exists)
        => cli \notin {"rejected", "raised"}

\* C7 (as claimed): as long as no write failed, get_count equals the number
\* of add_item calls, every full hundred of them is in a file of its own and
\* the rest is in memory.
C7_CountEqualsAdded ==
    hist.writeFailures = 0 =>
        /\ GetCount = hist.added
        /\ Cardinality(DOMAIN dlqFiles) = hist.added \div batch_size
        /\ Len(dlqBatch) = hist.added % batch_size
        /\ \A t \in DOMAIN dlqFiles : Len(dlqFiles[t]) = batch_size

\* C8 (as claimed): no step changes or removes a DLQ file that exists.
C8_FilesNeverChanged ==
    [][\A t \in DOMAIN dlqFiles :
          t \in DOMAIN dlqFiles' /\ dlqFiles'[t] = dlqFiles[t]]_vars

\* the dependency graph has a cycle (a self-dependency is one)
HasCycle(g) == \E s \in DOMAIN g : s \in TransDeps(g, s)

\* every dependency id is the id of a registered step
DepsRegistered(g, ord) == \A s \in Range(ord) : g[s] \subseteq Range(ord)

\* C9: _validate_pipeline succeeds exactly when the dependency graph has no
\* cycle and names registered steps only, and a graph with a cycle is
\* refused as circular.
C9_ValidateExact ==
    verdict # "none" =>
        /\ (verdict = "ok") <=> (~HasCycle(deps) /\ DepsRegistered(deps, order))
        /\ HasCycle(deps) => verdict = "circular"

\* C9 witness: the cycle A -> B -> A has been refused
C9_Witness ==
    /\ deps[TC] = {CAT} /\ deps[CAT] = {TC} /\ deps[PROD] = {}
    /\ verdict = "circular"

\* C10 (as claimed): a run and a run_async, each on a new pipeline of the
\* same steps and with no executor failing, return the same pipeline status
\* and the same status of every step.
C10_SameOutcome ==
    \A i, j \in 1..Len(hist.ret) :
        (hist.ret[i].op = "run" /\ hist.ret[j].op = "run_async")
        => /\ hist.ret[i].status = hist.ret[j].status
           /\ hist.ret[i].steps = hist.ret[j].steps

\* the steps that are failed
FailedSteps == {s \in Range(order) : stepStatus[s] = "failed"}

\* the DLQ items in memory that belong to step s
DlqItemsOf(s) == {i \in 1..Len(dlqBatch) : dlqBatch[i].src.step_id = s}

\* C11 (as claimed): in run_async a step whose executor failed is failed, has
\* exactly one DLQ item and is counted in stats.failed_steps exactly once:
\* the counter never exceeds the number of failed steps and equals it when
\* run_async has returned.
C11_FailureCountedOnce ==
    hist.last = "run_async" =>
        /\ \A s \in FailedSteps : Cardinality(DlqItemsOf(s)) = 1
        /\ stats.failed_steps <= Cardinality(FailedSteps)
        /\ pc = "idle" => stats.failed_steps = Cardinality(FailedSteps)

\* C12: run_async accounts a step as completed (status completed, result
\* stored, member of the completed set) only in a step of its loop before
\* which every declared dependency of the step is in the completed set.
C12_AccountedAfterDeps ==
    [][pc = "a_wait" =>
          \A s \in Range(order) :
             (\/ stepStatus'[s] = "completed" /\ stepStatus[s] # "completed"
              \/ s \in results' \ results
              \/ s \in executed' \ executed)
             => deps[s] \subseteq executed]_vars

\* C12 witness: run_async has returned with the last step of the diamond
\* accounted as completed
C12_Witness ==
    /\ pc = "idle" /\ hist.last = "run_async"
    /\ deps = DiamondGraph
    /\ stepStatus[CUST] = "completed" /\ CUST \in results

\* the error records of steps
StepErrors == {i \in 1..Len(errors) : errors[i].kind = "step"}

\* C13 (as claimed): when run or run_async has returned its result, the
\* errors list holds one step record for every executor call that failed.
C13_ErrorPerFailure ==
    (pc = "idle" /\ hist.result # NoResult)
        => Cardinality(StepErrors) = hist.failures

\* C14 (as claimed): once the status is cancelled during a run or run_async,
\* it stays cancelled up to and including the return of that call.
C14_CancelledIsTerminal ==
    [][(pc # "idle" /\ status = "cancelled") => status' = "cancelled"]_vars

\* C15: when run has returned after an interruption, the status is cancelled
\* and the state file holds the pipeline id, the status cancelled and the
\* status, attempts and error of every step, the results and the stats as
\* they are.
C15_InterruptSnapshot ==
    (pc = "idle" /\ hist.result.status = "cancelled")
        => /\ status = "cancelled"
           /\ stateFile = StateDocument("cancelled", stepStatus, attempts,
                                        stepError, results, stats)
           /\ stateFile.pipeline_id = pipeline_id
           /\ DOMAIN stateFile.step_states = Range(order)

\* C15 witness: run was interrupted in the retry of a step that had failed
\* once, after another step had completed
C15_Witness ==
    /\ pc = "idle" /\ status = "cancelled" /\ stateFile.exists
    /\ \E a, c \in Range(order) :
          /\ stateFile.step_states[a].status = "completed"
          /\ stateFile.step_states[c].status = "running"
          /\ stateFile.step_states[c].attempts = 2
          /\ stateFile.step_states[c].error
    /\ results # {} /\ stateFile.results = results

\* C16 (as claimed): after the command-line resume or cancel of a state file
\* has been carried out, no file exists under the name any more.
C16_ProcessedOnce ==
    cli \in {"raised", "cancelled"} => ~stateFile.exists

\* a command-line resume or cancel is run on a state file whose status is
\* neither running nor paused
CliOnFinishedState ==
    /\ cli = "none" /\ cli' # "none"
    /\ stateFile.exists
    /\ stateFile.status \notin {"running", "paused"}

\* C17: the command-line resume or cancel of a state file whose status is
\* neither running nor paused is refused: the state file stays as it is
\* under its name, no pipeline is built and no step is executed.
C17_RejectedUntouched ==
    [][CliOnFinishedState =>
          /\ cli' \in {"rejected", "cancel_rejected"}
          /\ UNCHANGED <<stateFile, order, deps, enabled, retries, status,
                         stepStatus, attempts, stepError, results, stats,
                         errors, pc>>]_vars

\* C17 witness: the resume of the state file of an interrupted run, whose
\* status is cancelled, has been refused
C17_Witness ==
    /\ cli = "rejected"
    /\ stateFile.exists /\ stateFile.status = "cancelled"
    /\ order = PipelineOrder

\* C18: a call of run or run_async on a pipeline whose status is running
\* raises and leaves status, stats, the steps, results, errors and the DLQ
\* as they are; no step is executed.
C18_RunningRejected ==
    [][(pc = "idle" /\ status = "running" /\ hist'.calls = hist.calls + 1) =>
          /\ hist'.raised
          /\ UNCHANGED <<status, stats, stepStatus, attempts, stepError,
                         results, errors, pc, dlqVars>>]_vars

\* C18 witness: run was called on the pipeline that an interrupted run_async
\* had left running, and raised
C18_Witness ==
    /\ pc = "idle" /\ status = "running"
    /\ hist.calls = 2 /\ hist.last = "run" /\ hist.raised

\* run or run_async has left its step loop normally and returned
NormalExit ==
    /\ pc = "idle"
    /\ hist.result # NoResult
    /\ verdict = "ok"
    /\ hist.result.status # "cancelled"

\* C19: when run or run_async has left its step loop normally, the final
\* status is completed if every step's status is completed, pending or
\* skipped, and failed otherwise.
C19_FinalStatusRule ==
    NormalExit =>
        /\ status = hist.result.status
        /\ status \in {"completed", "failed"}
        /\ status = "completed" <=>
              \A s \in DOMAIN hist.result.steps :
                 hist.result.steps[s] \in {"completed", "pending", "skipped"}

\* C19 witness: run_async has returned failed with no step failed, one step
\* being left running
C19_Witness ==
    /\ NormalExit /\ hist.last = "run_async"
    /\ status = "failed"
    /\ \E s \in Range(order) : hist.result.steps[s] = "running"
    /\ \A s \in Range(order) : hist.result.steps[s] # "failed"

\* C20: when the dependency graph has a cycle or names an id that is not
\* registered, a call of run or run_async on the new pipeline ends at once
\* with status failed and one pipeline error; no executor is invoked and
\* every step keeps status pending and attempts 0.
C20_ValidationFailureAborts ==
    (hist.calls >= 1 /\ (HasCycle(deps) \/ ~DepsRegistered(deps, order)))
        => /\ pc = "idle"
           /\ status = "failed" /\ hist.result.status = "failed"
           /\ \A s \in Range(order) :
                 stepStatus[s] = "pending" /\ attempts[s] = 0
           /\ results = {}
           /\ errors = <<PipelineErrorRecord>>
           /\ dlqBatch = <<>>

\* C20 witness: run_async has refused the pipeline in which a step depends
\* on itself
C20_Witness ==
    /\ hist.last = "run_async" /\ deps = SelfGraph
    /\ verdict = "circular" /\ status = "failed"

\* C21: an add_step call whose step id is registered already, which is the
\* case exactly when a registered name equals the new name up to the case of
\* its letters and to space versus underscore, raises and leaves the step
\* map and the dependency graph as they were; any other call registers the
\* step under its id.
FoldChar(c) == CASE c = "A" -> "a" [] c = " " -> "_" [] OTHER -> c

SameUpToCaseAndSpace(a, b) ==
    /\ Len(a) = Len(b)
    /\ \A i \in 1..Len(a) : FoldChar(a[i]) = FoldChar(b[i])

Registered(name) ==
    \E i \in 1..Len(hist.names) : SameUpToCaseAndSpace(hist.names[i], name)

C21_DuplicateRejected ==
    [][(hist'.last = "add_step" /\ hist'.calls = hist.calls + 1) =>
          IF Registered(hist'.name) \/ StepId(hist'.name) \in Range(order)
          THEN /\ hist'.raised
               /\ UNCHANGED <<order, deps, enabled, retries, stepStatus,
                              attempts, stepError>>
          ELSE /\ ~hist'.raised
               /\ Len(order') = Len(order) + 1
               /\ DOMAIN deps' = (DOMAIN deps) \cup {StepId(hist'.name)}]_vars

C21_Witness ==
    /\ hist.last = "add_step"
    /\ hist.raised
    /\ hist.name = <<"A">>
    /\ hist.names = <<<<"a">>>>
    /\ order = <<StepId(<<"a">>)>>

\* C22: a retry_failed_items call invokes the callback exactly once for
\* every item of every file of the DLQ directory, whether or not the callback
\* raises, and moves every file to archive/; over all the calls no item is
\* handed to the callback twice, so a call that no flush precedes invokes
\* nothing.  A file without a readable item (the rest of a failed write)
\* stays where it is.
PayloadsOnDisk(files) ==
    UNION {{files[t][i].src : i \in 1..Len(files[t])} : t \in DOMAIN files}

C22_RetryOncePerItem ==
    [][hist'.retryCalls = hist.retryCalls + 1 =>
          /\ hist'.invoked = SumLen(dlqFiles, DOMAIN dlqFiles)
          /\ Len(hist'.retried) = Len(hist.retried) + hist'.invoked
          /\ Range(SubSeq(hist'.retried, Len(hist.retried) + 1,
                          Len(hist'.retried))) = PayloadsOnDisk(dlqFiles)
          /\ Cardinality(Range(hist'.retried)) = Len(hist'.retried)
          /\ DOMAIN dlqFiles' = {t \in DOMAIN dlqFiles : dlqFiles[t] = <<>>}
          /\ \A t \in DOMAIN dlqFiles' : dlqFiles'[t] = <<>>
          /\ \A t \in DOMAIN dlqFiles : dlqFiles[t] # <<>> =>
                t \in DOMAIN dlqArchive' /\ dlqArchive'[t] = dlqFiles[t]
          /\ dlqBatch' = dlqBatch]_vars

C22_Witness ==
    /\ hist.retryCalls = 2
    /\ hist.invoked = 0
    /\ hist.callbackFailures = 1
    /\ Len(hist.retried) = 2 * batch_size
    /\ Cardinality(DOMAIN dlqArchive) = 2

\* C23: the list _get_ready_steps hands to run holds exactly the steps that
\* are not executed and whose dependencies are all executed, each once, in
\* ascending number of dependencies and, among equals, in registration
\* order; run works through the list from its head.
Pos(s) == CHOOSE i \in 1..Len(order) : order[i] = s

ReadyInOrder(q, done) ==
    /\ Range(q) = {s \in Range(order) : s \notin done /\ deps[s] \subseteq done}
    /\ Cardinality(Range(q)) = Len(q)
    /\ \A i, j \in 1..Len(q) :
          i < j => \/ Cardinality(deps[q[i]]) < Cardinality(deps[q[j]])
                   \/ /\ Cardinality(deps[q[i]]) = Cardinality(deps[q[j]])
                      /\ Pos(q[i]) < Pos(q[j])

C23_ReadyStepsSorted ==
    [][/\ (pc = "loop" /\ pc' = "wave") => ReadyInOrder(queue', executed)
       /\ pc \in {"wave", "backoff"} =>
             /\ \A s \in Range(order) :
                   (attempts'[s] # attempts[s] \/ stepStatus'[s] # stepStatus[s]
                      \/ s \in executed' \ executed)
                   => (queue # <<>> /\ s = Head(queue))
             /\ queue # <<>> => queue' \in {queue, Tail(queue), <<>>}]_vars

C23_Witness ==
    /\ deps[CUST] = {TC} /\ deps[PROD] = {TC, CAT}
    /\ pc = "wave"
    /\ queue = <<PROD>>
    /\ executed = {TC, CAT, CUST}
    /\ attempts[CUST] = 1 /\ attempts[PROD] = 0

InMutation ==
    Cardinality({s \in DOMAIN tasks : tasks[s] = "in_add_item"})
    + (IF pc = "a_process" THEN 1 ELSE 0)

C25_MutationsSerialized ==
    /\ InMutation <= 1
    /\ Len(dlqBatch) = Cardinality({s \in Range(order) : stepError[s]})

C25_Witness ==
    \E a, b, c, d \in DOMAIN tasks :
        /\ tasks[a] = "in_add_item"
        /\ tasks[d] = "raised"
        /\ b # c /\ tasks[b] = "running" /\ tasks[c] = "running"

\* C26: a run_async call on a pipeline that passes validation returns once
\* its executors have returned or raised.
C26_RunAsyncReturns == (pc # "idle") ~> (pc = "idle")

\* C27: in every reachable state the counters are non-negative and
\* completed_steps + failed_steps + skipped_steps is at most total_steps.
C27_CountersWithinTotal ==
    /\ stats.completed_steps >= 0
    /\ stats.failed_steps >= 0
    /\ stats.skipped_steps >= 0
    /\ stats.completed_steps + stats.failed_steps + stats.skipped_steps
          <= stats.total_steps

\* C28: inside run, which gets there only when validation has passed, the
\* head of the loop never takes the branch that raises "Unresolved
\* dependencies": as long as a step is not executed, a step that is not
\* executed has all its dependencies executed.
C28_NoUnresolvedBranch ==
    [][pc = "loop" =>
          /\ pc' # "idle"
          /\ Cardinality(executed) < Len(order) =>
                \E s \in Range(order) \ executed : deps[s] \subseteq executed]_vars

C28_Witness ==
    /\ pc = "loop"
    /\ verdict = "ok"
    /\ executed # {}
    /\ \E s \in Range(order) \ executed : ~(deps[s] \subseteq executed)
    /\ \E s \in executed : ~enabled[s]

\* C29: an add_item call whose flush fails leaves the batch with every item
\* it had and the new one; once the batch is full every add_item call tries
\* the flush again; the batch is emptied only by a write that put all its
\* items into the file.
C29_FailedWriteKeepsBatch ==
    [][hist'.added = hist.added + 1 =>
          LET b2 == Append(dlqBatch, [src |-> hist'.added])
          IN  /\ hist'.writeFailures > hist.writeFailures => dlqBatch' = b2
              /\ Len(b2) >= batch_size =>
                    (hist'.writeFailures > hist.writeFailures \/ dlqBatch' = <<>>)
              /\ dlqBatch' # b2 =>
                    /\ dlqBatch' = <<>>
                    /\ hist'.writeFailures = hist.writeFailures
                    /\ clock \in DOMAIN dlqFiles'
                    /\ dlqFiles'[clock] = b2]_vars

C29_Witness ==
    /\ hist.writeFailures = 1
    /\ dlqBatch = <<>>
    /\ \E t \in DOMAIN dlqFiles : Len(dlqFiles[t]) = batch_size + 1

\* C30: when run or run_async has returned, every item the failed steps
\* added to the pipeline's DLQ is in a file: the in-memory batch is empty.
C30_WrittenAtReturn ==
    (pc = "idle" /\ hist.calls >= 1) => dlqBatch = <<>>

====
